---- MODULE Spec2Model ----
(***************************************************************************)
(* Chess rule engine and game-state manager of chess-app:                  *)
(*   utils/chessLogic.ts, utils/notation.ts, utils/specialMoves.ts,        *)
(*   components/ChessBoardWithCoordinates.tsx, hooks/useChessGame.ts.      *)
(*                                                                         *)
(* A square is <<row, col>>; JavaScript null / undefined is NoPiece,       *)
(* NoSquare, NoPending, NoType.  Move.timestamp (Date.now()) and the       *)
(* constant players record are not part of the model.  validMoves is the   *)
(* set of the squares the row-major scan pushes (the array never holds a   *)
(* square twice).                                                          *)
(*                                                                         *)
(* preMove is the GameState value the latest executeMove was handed, kept  *)
(* by whoever holds the previous snapshot; probe is the latest direct call *)
(* of the exported validator.  boardFlipped is the hook's second useState.  *)
(***************************************************************************)
EXTENDS Integers, Sequences, FiniteSets, TLC

VARIABLES board, currentPlayer, selectedSquare, validMoves, moves,
          capturedPieces, castlingRights, enPassantTarget, promotionPending,
          isCheck, isCheckmate, gameOver,
          boardFlipped, clickable, lastHandler, preMove, probe

vars == <<board, currentPlayer, selectedSquare, validMoves, moves,
          capturedPieces, castlingRights, enPassantTarget, promotionPending,
          isCheck, isCheckmate, gameOver>>

allvars == <<vars, boardFlipped, clickable, lastHandler, preMove, probe>>

(***************************************************************************)
(* types/chess.ts                                                          *)
(***************************************************************************)
PieceType == {"pawn", "rook", "knight", "bishop", "queen", "king"}

PieceColor == {"white", "black"}

Square == (0..7) \X (0..7)

NoType == "none"

NoPiece == [type |-> "none", color |-> "none"]

NoSquare == <<>>

NoPending == [square |-> NoSquare, color |-> "none"]

ChessPiece(t, c) == [type |-> t, color |-> c]

Abs(n) == IF n < 0 THEN -n ELSE n

Sign(n) == IF n < 0 THEN -1 ELSE IF n > 0 THEN 1 ELSE 0

Last(s) == s[Len(s)]

(***************************************************************************)
(* utils/chessLogic.ts                                                     *)
(***************************************************************************)
pieceOrder == <<"rook", "knight", "bishop", "queen", "king", "bishop", "knight", "rook">>

createInitialBoard ==
  [sq \in Square |->
     CASE sq[1] = 0 -> ChessPiece(pieceOrder[sq[2] + 1], "black")
       [] sq[1] = 1 -> ChessPiece("pawn", "black")
       [] sq[1] = 6 -> ChessPiece("pawn", "white")
       [] sq[1] = 7 -> ChessPiece(pieceOrder[sq[2] + 1], "white")
       [] OTHER -> NoPiece]

initialCastlingRights ==
  [whiteKingSide |-> TRUE, whiteQueenSide |-> TRUE,
   blackKingSide |-> TRUE, blackQueenSide |-> TRUE]

isSameSquare(square1, square2) ==
  square1[1] = square2[1] /\ square1[2] = square2[2]

\* The optional gameState argument of isValidMove: the two fields the
\* validator reads, and whether the argument was passed at all.
AuxState(rights, target) ==
  [defined |-> TRUE, castlingRights |-> rights, enPassantTarget |-> target]

NoAuxState ==
  [defined |-> FALSE, castlingRights |-> initialCastlingRights, enPassantTarget |-> NoSquare]

\* isValidPawnMove that, once an en-passant target is set, accepts the
\* diagonal step onto any empty square.
isValidPawnMove_anyEmptyDiagonal(from, to, color, b, gameState) ==
  LET fromRow == from[1]
      fromCol == from[2]
      toRow == to[1]
      toCol == to[2]
      direction == IF color = "white" THEN -1 ELSE 1
      startRow == IF color = "white" THEN 6 ELSE 1
  IN  \/ /\ fromCol = toCol
         /\ \/ toRow = fromRow + direction /\ b[to] = NoPiece
            \/ fromRow = startRow /\ toRow = fromRow + 2 * direction /\ b[to] = NoPiece
      \/ /\ Abs(fromCol - toCol) = 1
         /\ toRow = fromRow + direction
         /\ \/ b[to] # NoPiece
            \/ /\ gameState.defined
               /\ gameState.enPassantTarget # NoSquare

isValidPawnMove(from, to, color, b, gameState) ==
  LET fromRow == from[1]
      fromCol == from[2]
      toRow == to[1]
      toCol == to[2]
      direction == IF color = "white" THEN -1 ELSE 1
      startRow == IF color = "white" THEN 6 ELSE 1
  IN  \/ /\ fromCol = toCol
         /\ \/ toRow = fromRow + direction /\ b[to] = NoPiece
            \/ fromRow = startRow /\ toRow = fromRow + 2 * direction /\ b[to] = NoPiece
      \/ /\ Abs(fromCol - toCol) = 1
         /\ toRow = fromRow + direction
         /\ \/ b[to] # NoPiece
            \/ /\ gameState.defined
               /\ gameState.enPassantTarget # NoSquare
               /\ isSameSquare(to, gameState.enPassantTarget)

\* The while loop shared by isValidRookMove and isValidBishopMove: walks
\* from (currentRow, currentCol) to 'to', FALSE on the first occupied square.
RECURSIVE PathIsClear(_, _, _, _, _, _)
PathIsClear(currentRow, currentCol, rowDir, colDir, to, b) ==
  IF currentRow = to[1] /\ currentCol = to[2] THEN TRUE
  ELSE IF b[<<currentRow, currentCol>>] # NoPiece THEN FALSE
  ELSE PathIsClear(currentRow + rowDir, currentCol + colDir, rowDir, colDir, to, b)

\* isValidRookMove that tests the direction only, not the squares on the way.
isValidRookMove_noPathCheck(from, to, b) ==
  ~(from[1] # to[1] /\ from[2] # to[2])

isValidRookMove(from, to, b) ==
  IF from[1] # to[1] /\ from[2] # to[2] THEN FALSE
  ELSE LET rowDir == Sign(to[1] - from[1])
           colDir == Sign(to[2] - from[2])
       IN  PathIsClear(from[1] + rowDir, from[2] + colDir, rowDir, colDir, to, b)

isValidKnightMove(from, to) ==
  LET rowDiff == Abs(from[1] - to[1])
      colDiff == Abs(from[2] - to[2])
  IN  (rowDiff = 2 /\ colDiff = 1) \/ (rowDiff = 1 /\ colDiff = 2)

\* from = to never reaches this function (isValidMove returns first), so the
\* 0/0 direction of that case is not modelled.
isValidBishopMove(from, to, b) ==
  IF Abs(from[1] - to[1]) # Abs(from[2] - to[2]) \/ from = to THEN FALSE
  ELSE LET rowDir == Sign(to[1] - from[1])
           colDir == Sign(to[2] - from[2])
       IN  PathIsClear(from[1] + rowDir, from[2] + colDir, rowDir, colDir, to, b)

isValidQueenMove(from, to, b) ==
  isValidRookMove(from, to, b) \/ isValidBishopMove(from, to, b)

\* isValidKingMove without the test of the squares between king and rook.
isValidKingMove_noEmptyCheck(from, to, b, gameState) ==
  LET rowDiff == Abs(from[1] - to[1])
      colDiff == Abs(from[2] - to[2])
      color == b[from].color
      kingRow == IF color = "white" THEN 7 ELSE 0
  IN  \/ rowDiff <= 1 /\ colDiff <= 1 /\ rowDiff + colDiff > 0
      \/ /\ gameState.defined /\ rowDiff = 0 /\ colDiff = 2
         /\ b[from].type = "king" /\ from = <<kingRow, 4>>
         /\ \/ /\ to[2] = 6
               /\ IF color = "white" THEN gameState.castlingRights.whiteKingSide
                  ELSE gameState.castlingRights.blackKingSide
               /\ b[<<kingRow, 7>>] = ChessPiece("rook", color)
            \/ /\ to[2] = 2
               /\ IF color = "white" THEN gameState.castlingRights.whiteQueenSide
                  ELSE gameState.castlingRights.blackQueenSide
               /\ b[<<kingRow, 0>>] = ChessPiece("rook", color)

isValidKingMove(from, to, b, gameState) ==
  LET fromRow == from[1]
      fromCol == from[2]
      toCol == to[2]
      rowDiff == Abs(from[1] - to[1])
      colDiff == Abs(from[2] - to[2])
      piece == b[from]
      color == piece.color
      kingRow == IF color = "white" THEN 7 ELSE 0
      kingSide == IF color = "white" THEN gameState.castlingRights.whiteKingSide
                  ELSE gameState.castlingRights.blackKingSide
      queenSide == IF color = "white" THEN gameState.castlingRights.whiteQueenSide
                   ELSE gameState.castlingRights.blackQueenSide
  IN  IF rowDiff <= 1 /\ colDiff <= 1 /\ rowDiff + colDiff > 0 THEN TRUE
      ELSE IF gameState.defined /\ rowDiff = 0 /\ colDiff = 2 THEN
        IF piece = NoPiece \/ piece.type # "king" THEN FALSE
        ELSE IF fromRow # kingRow \/ fromCol # 4 THEN FALSE
        ELSE IF toCol = 6 THEN
          /\ kingSide
          /\ b[<<kingRow, 5>>] = NoPiece /\ b[<<kingRow, 6>>] = NoPiece
          /\ b[<<kingRow, 7>>] = ChessPiece("rook", color)
        ELSE IF toCol = 2 THEN
          /\ queenSide
          /\ b[<<kingRow, 1>>] = NoPiece /\ b[<<kingRow, 2>>] = NoPiece
          /\ b[<<kingRow, 3>>] = NoPiece
          /\ b[<<kingRow, 0>>] = ChessPiece("rook", color)
        ELSE FALSE
      ELSE FALSE

\* isValidMove without the test of the destination's colour.
isValidMove_noOwnCheck(from, to, b, gameState) ==
  LET piece == b[from]
  IN  IF piece = NoPiece THEN FALSE
      ELSE CASE piece.type = "pawn" -> isValidPawnMove(from, to, piece.color, b, gameState)
             [] piece.type = "rook" -> isValidRookMove(from, to, b)
             [] piece.type = "knight" -> isValidKnightMove(from, to)
             [] piece.type = "bishop" -> isValidBishopMove(from, to, b)
             [] piece.type = "queen" -> isValidQueenMove(from, to, b)
             [] piece.type = "king" -> isValidKingMove(from, to, b, gameState)
             [] OTHER -> FALSE

isValidMove(from, to, b, gameState) ==
  LET piece == b[from]
      targetPiece == b[to]
  IN  IF piece = NoPiece THEN FALSE
      ELSE IF targetPiece # NoPiece /\ targetPiece.color = piece.color THEN FALSE
      ELSE CASE piece.type = "pawn" -> isValidPawnMove(from, to, piece.color, b, gameState)
             [] piece.type = "rook" -> isValidRookMove(from, to, b)
             [] piece.type = "knight" -> isValidKnightMove(from, to)
             [] piece.type = "bishop" -> isValidBishopMove(from, to, b)
             [] piece.type = "queen" -> isValidQueenMove(from, to, b)
             [] piece.type = "king" -> isValidKingMove(from, to, b, gameState)
             [] OTHER -> FALSE

(***************************************************************************)
(* utils/notation.ts                                                       *)
(***************************************************************************)
FILES == <<"a", "b", "c", "d", "e", "f", "g", "h">>

RANKS == <<"8", "7", "6", "5", "4", "3", "2", "1">>

\* squareToNotation that counts the ranks from the top row.
squareToNotation_ranksFromTop(sq) == FILES[sq[2] + 1] \o RANKS[8 - sq[1]]

squareToNotation(sq) == FILES[sq[2] + 1] \o RANKS[sq[1] + 1]

\* type.charAt(0).toUpperCase()
InitialLetter(t) ==
  CASE t = "pawn" -> "P"
    [] t = "rook" -> "R"
    [] t = "knight" -> "K"
    [] t = "bishop" -> "B"
    [] t = "queen" -> "Q"
    [] t = "king" -> "K"

\* generateMoveNotation that omits the origin file of a capturing pawn.
generateMoveNotation_noPawnFile(from, to, piece, capturedPiece, isCastling, isEnPassant, isPromotion, promotedTo) ==
  IF isCastling THEN (IF to[2] > from[2] THEN "O-O" ELSE "O-O-O")
  ELSE LET toNotation == squareToNotation(to)
           symbol == IF piece.type # "pawn" THEN InitialLetter(piece.type) ELSE ""
           capture == IF capturedPiece # NoPiece \/ isEnPassant THEN "x" ELSE ""
           enPassant == IF isEnPassant THEN " e.p." ELSE ""
           promotion == IF isPromotion /\ promotedTo # NoType
                        THEN "=" \o InitialLetter(promotedTo) ELSE ""
       IN  symbol \o capture \o toNotation \o enPassant \o promotion

generateMoveNotation(from, to, piece, capturedPiece, isCastling, isEnPassant, isPromotion, promotedTo) ==
  IF isCastling THEN (IF to[2] > from[2] THEN "O-O" ELSE "O-O-O")
  ELSE LET toNotation == squareToNotation(to)
           symbol == IF piece.type # "pawn" THEN InitialLetter(piece.type) ELSE ""
           capture == IF capturedPiece # NoPiece \/ isEnPassant
                      THEN (IF piece.type = "pawn" THEN FILES[from[2] + 1] ELSE "") \o "x"
                      ELSE ""
           enPassant == IF isEnPassant THEN " e.p." ELSE ""
           promotion == IF isPromotion /\ promotedTo # NoType
                        THEN "=" \o InitialLetter(promotedTo) ELSE ""
       IN  symbol \o capture \o toNotation \o enPassant \o promotion

(***************************************************************************)
(* utils/specialMoves.ts                                                   *)
(***************************************************************************)
isCastlingMove(from, to, piece) ==
  IF piece.type # "king" THEN FALSE
  ELSE from[1] = to[1] /\ Abs(from[2] - to[2]) = 2

isEnPassantMove(from, to, piece, target) ==
  IF piece.type # "pawn" THEN FALSE
  ELSE IF target = NoSquare THEN FALSE
  ELSE LET direction == IF piece.color = "white" THEN -1 ELSE 1
       IN  /\ Abs(from[2] - to[2]) = 1
           /\ to[1] = from[1] + direction
           /\ isSameSquare(to, target)

\* isPromotionMove that fires one rank before the last.
isPromotionMove_oneRankEarly(from, to, piece) ==
  IF piece.type # "pawn" THEN FALSE
  ELSE (piece.color = "white" /\ to[1] = 1) \/ (piece.color = "black" /\ to[1] = 6)

isPromotionMove(from, to, piece) ==
  IF piece.type # "pawn" THEN FALSE
  ELSE (piece.color = "white" /\ to[1] = 0) \/ (piece.color = "black" /\ to[1] = 7)

\* executeCastling that moves the king and leaves the rook in its corner.
executeCastling_rookStays(b, from, to) ==
  IF b[from] = NoPiece THEN b
  ELSE [b EXCEPT ![from] = NoPiece, ![<<from[1], to[2]>>] = b[from]]

executeCastling(b, from, to) ==
  LET fromRow == from[1]
      toCol == to[2]
      king == b[from]
      kingMoved == [b EXCEPT ![from] = NoPiece, ![<<fromRow, toCol>>] = king]
  IN  IF king = NoPiece THEN b
      ELSE IF toCol = 6
        THEN [kingMoved EXCEPT ![<<fromRow, 7>>] = NoPiece,
                               ![<<fromRow, 5>>] = kingMoved[<<fromRow, 7>>]]
      ELSE IF toCol = 2
        THEN [kingMoved EXCEPT ![<<fromRow, 0>>] = NoPiece,
                               ![<<fromRow, 3>>] = kingMoved[<<fromRow, 0>>]]
      ELSE kingMoved

\* The row of the pawn executeEnPassant removes.
capturedPawnRow(to, piece) == IF piece.color = "white" THEN to[1] + 1 ELSE to[1] - 1

executeEnPassant(b, from, to, piece) ==
  LET pawnMoved == [b EXCEPT ![from] = NoPiece, ![to] = piece]
      capturedSq == <<capturedPawnRow(to, piece), to[2]>>
  IN  [newBoard |-> [pawnMoved EXCEPT ![capturedSq] = NoPiece],
       capturedPiece |-> pawnMoved[capturedSq]]

\* updateCastlingRights that starts from fresh rights instead of a copy of
\* the current ones.
updateCastlingRights_fresh(rights, move) ==
  LET piece == move.piece
      afterKing ==
        IF piece.type = "king"
        THEN IF piece.color = "white"
             THEN [initialCastlingRights EXCEPT !.whiteKingSide = FALSE, !.whiteQueenSide = FALSE]
             ELSE [initialCastlingRights EXCEPT !.blackKingSide = FALSE, !.blackQueenSide = FALSE]
        ELSE initialCastlingRights
  IN  IF piece.type = "rook" /\ move.from[1] = (IF piece.color = "white" THEN 7 ELSE 0)
      THEN IF piece.color = "white"
           THEN [afterKing EXCEPT
                   !.whiteQueenSide = IF move.from[2] = 0 THEN FALSE ELSE @,
                   !.whiteKingSide = IF move.from[2] = 7 THEN FALSE ELSE @]
           ELSE [afterKing EXCEPT
                   !.blackQueenSide = IF move.from[2] = 0 THEN FALSE ELSE @,
                   !.blackKingSide = IF move.from[2] = 7 THEN FALSE ELSE @]
      ELSE afterKing

\* updateCastlingRights that clears a rook's right whatever square it leaves.
updateCastlingRights_anyRookMove(rights, move) ==
  LET piece == move.piece
  IN  IF piece.type = "king"
      THEN IF piece.color = "white"
           THEN [rights EXCEPT !.whiteKingSide = FALSE, !.whiteQueenSide = FALSE]
           ELSE [rights EXCEPT !.blackKingSide = FALSE, !.blackQueenSide = FALSE]
      ELSE IF piece.type = "rook"
      THEN IF piece.color = "white"
           THEN [rights EXCEPT !.whiteKingSide = FALSE]
           ELSE [rights EXCEPT !.blackKingSide = FALSE]
      ELSE rights

updateCastlingRights(rights, move) ==
  LET piece == move.piece
      fromRow == move.from[1]
      fromCol == move.from[2]
      afterKing ==
        IF piece.type = "king"
        THEN IF piece.color = "white"
             THEN [rights EXCEPT !.whiteKingSide = FALSE, !.whiteQueenSide = FALSE]
             ELSE [rights EXCEPT !.blackKingSide = FALSE, !.blackQueenSide = FALSE]
        ELSE rights
  IN  IF piece.type = "rook"
      THEN IF piece.color = "white" /\ fromRow = 7
           THEN [afterKing EXCEPT
                   !.whiteQueenSide = IF fromCol = 0 THEN FALSE ELSE @,
                   !.whiteKingSide = IF fromCol = 7 THEN FALSE ELSE @]
           ELSE IF piece.color = "black" /\ fromRow = 0
           THEN [afterKing EXCEPT
                   !.blackQueenSide = IF fromCol = 0 THEN FALSE ELSE @,
                   !.blackKingSide = IF fromCol = 7 THEN FALSE ELSE @]
           ELSE afterKing
      ELSE afterKing

\* updateEnPassantTarget returning the destination instead of the square
\* passed over.
updateEnPassantTarget_destination(move) ==
  IF move.piece.type = "pawn" /\ Abs(move.from[1] - move.to[1]) = 2
  THEN move.to
  ELSE NoSquare

updateEnPassantTarget(move) ==
  LET fromRow == move.from[1]
      toRow == move.to[1]
      toCol == move.to[2]
  IN  IF move.piece.type = "pawn" /\ Abs(fromRow - toRow) = 2
      THEN <<(IF move.piece.color = "white" THEN fromRow - 1 ELSE fromRow + 1), toCol>>
      ELSE NoSquare

(***************************************************************************)
(* components/ChessBoardWithCoordinates.tsx                                *)
(***************************************************************************)
\* The gameState the validator is handed: the current snapshot.
gameStateAux == AuxState(castlingRights, enPassantTarget)

\* getValidMovesForPiece whose scan stops before the last row.
getValidMovesForPiece_skipsLastRow(from, b) ==
  {to \in (0..6) \X (0..7) : isValidMove(from, to, b, gameStateAux)}

getValidMovesForPiece(from, b) ==
  {to \in Square : isValidMove(from, to, b, gameStateAux)}

\* newCapturedPieces[capturedPiece.color === 'white' ? 'black' : 'white'].push(capturedPiece)
pushCaptured(lists, capturedPiece) ==
  IF capturedPiece = NoPiece THEN lists
  ELSE IF capturedPiece.color = "white"
       THEN [lists EXCEPT !.black = Append(@, capturedPiece)]
       ELSE [lists EXCEPT !.white = Append(@, capturedPiece)]

\* moveOnBoard without the substitution of the promoted piece.
moveOnBoard_noSubstitution(b, target, from, to, movingPiece, promotedTo) ==
  IF isCastlingMove(from, to, movingPiece)
  THEN [newBoard |-> executeCastling(b, from, to), capturedPiece |-> b[to]]
  ELSE IF isEnPassantMove(from, to, movingPiece, target)
  THEN executeEnPassant(b, from, to, movingPiece)
  ELSE [newBoard |-> [b EXCEPT ![from] = NoPiece, ![to] = movingPiece],
        capturedPiece |-> b[to]]

\* Board and captured piece computed by executeMove (lines 91-114).
moveOnBoard(b, target, from, to, movingPiece, promotedTo) ==
  LET isCastling == isCastlingMove(from, to, movingPiece)
      isEnPassant == isEnPassantMove(from, to, movingPiece, target)
  IN  IF isCastling
      THEN [newBoard |-> executeCastling(b, from, to), capturedPiece |-> b[to]]
      ELSE IF isEnPassant
      THEN executeEnPassant(b, from, to, movingPiece)
      ELSE [newBoard |-> [b EXCEPT ![from] = NoPiece,
                                   ![to] = IF promotedTo # NoType
                                           THEN ChessPiece(promotedTo, movingPiece.color)
                                           ELSE movingPiece],
            capturedPiece |-> b[to]]

\* The Move record executeMove builds (lines 122-144).
newMoveOf(b, target, from, to, movingPiece, promotedTo) ==
  LET isCastling == isCastlingMove(from, to, movingPiece)
      isEnPassant == isEnPassantMove(from, to, movingPiece, target)
      capturedPiece == moveOnBoard(b, target, from, to, movingPiece, promotedTo).capturedPiece
  IN  [from |-> from,
       to |-> to,
       piece |-> movingPiece,
       capturedPiece |-> capturedPiece,
       notation |-> generateMoveNotation(from, to, movingPiece, capturedPiece,
                                         isCastling, isEnPassant,
                                         promotedTo # NoType, promotedTo),
       isCastling |-> isCastling,
       isEnPassant |-> isEnPassant,
       isPromotion |-> promotedTo # NoType,
       promotedTo |-> promotedTo]

otherPlayer(color) == IF color = "white" THEN "black" ELSE "white"

\* The GameState value executeMove is handed (the gameState prop), as the
\* holder of that value keeps it after the move.  newBoard is
\* gameState.board.map(row => [...row]) and the history is
\* [...gameState.moves, newMove]: both are new arrays, so the snapshot keeps
\* its own board and moves.  newCapturedPieces = { ...gameState.capturedPieces }
\* is a new object holding the SAME two arrays (arrays names them), and
\* push writes into them: capturedPieces is the content of those two arrays,
\* whichever snapshot they are read through.  contents is what the arrays
\* held when executeMove was called.
snapshotOfGameState ==
  [board |-> board, moves |-> moves, contents |-> capturedPieces,
   arrays |-> [white |-> "white", black |-> "black"]]

NoSnapshot ==
  [board |-> <<>>, moves |-> <<>>, contents |-> <<>>, arrays |-> <<>>]

\* gameState.capturedPieces of a snapshot, read now.
readCapturedPieces(snapshot) ==
  [color \in {"white", "black"} |-> capturedPieces[snapshot.arrays[color]]]

\* executeMove that keeps the selection of the piece that moved.
executeMove_keepsSelection(from, to, movingPiece, promotedTo) ==
  LET result == moveOnBoard(board, enPassantTarget, from, to, movingPiece, promotedTo)
      newMove == newMoveOf(board, enPassantTarget, from, to, movingPiece, promotedTo)
  IN  /\ board' = result.newBoard
      /\ currentPlayer' = otherPlayer(currentPlayer)
      /\ moves' = Append(moves, newMove)
      /\ capturedPieces' = pushCaptured(capturedPieces, result.capturedPiece)
      /\ castlingRights' = updateCastlingRights(castlingRights, newMove)
      /\ enPassantTarget' = updateEnPassantTarget(newMove)
      /\ promotionPending' = NoPending
      /\ UNCHANGED <<selectedSquare, validMoves, isCheck, isCheckmate, gameOver>>

\* The king of that colour stands on a square a piece of the other colour
\* may move to.
kingAttacked(b, color, gameState) ==
  \E kingSquare \in Square :
    /\ b[kingSquare] = ChessPiece("king", color)
    /\ \E from \in Square :
         /\ b[from] # NoPiece
         /\ b[from].color # color
         /\ isValidMove(from, kingSquare, b, gameState)

\* executeMove that raises isCheck when the move attacks the other king.
executeMove_detectsCheck(from, to, movingPiece, promotedTo) ==
  LET result == moveOnBoard(board, enPassantTarget, from, to, movingPiece, promotedTo)
      newMove == newMoveOf(board, enPassantTarget, from, to, movingPiece, promotedTo)
  IN  /\ board' = result.newBoard
      /\ currentPlayer' = otherPlayer(currentPlayer)
      /\ selectedSquare' = NoSquare
      /\ validMoves' = {}
      /\ moves' = Append(moves, newMove)
      /\ capturedPieces' = pushCaptured(capturedPieces, result.capturedPiece)
      /\ castlingRights' = updateCastlingRights(castlingRights, newMove)
      /\ enPassantTarget' = updateEnPassantTarget(newMove)
      /\ promotionPending' = NoPending
      /\ isCheck' = kingAttacked(result.newBoard, otherPlayer(currentPlayer),
                                 AuxState(updateCastlingRights(castlingRights, newMove),
                                          updateEnPassantTarget(newMove)))
      /\ UNCHANGED <<isCheckmate, gameOver>>

\* executeMove that leaves the turn with the player who moved.
executeMove_keepsTurn(from, to, movingPiece, promotedTo) ==
  LET result == moveOnBoard(board, enPassantTarget, from, to, movingPiece, promotedTo)
      newMove == newMoveOf(board, enPassantTarget, from, to, movingPiece, promotedTo)
  IN  /\ board' = result.newBoard
      /\ selectedSquare' = NoSquare
      /\ validMoves' = {}
      /\ moves' = Append(moves, newMove)
      /\ capturedPieces' = pushCaptured(capturedPieces, result.capturedPiece)
      /\ castlingRights' = updateCastlingRights(castlingRights, newMove)
      /\ enPassantTarget' = updateEnPassantTarget(newMove)
      /\ promotionPending' = NoPending
      /\ UNCHANGED <<currentPlayer, isCheck, isCheckmate, gameOver>>

\* executeMove that puts the new Move in front of the history.
executeMove_prepends(from, to, movingPiece, promotedTo) ==
  LET result == moveOnBoard(board, enPassantTarget, from, to, movingPiece, promotedTo)
      newMove == newMoveOf(board, enPassantTarget, from, to, movingPiece, promotedTo)
  IN  /\ board' = result.newBoard
      /\ currentPlayer' = otherPlayer(currentPlayer)
      /\ selectedSquare' = NoSquare
      /\ validMoves' = {}
      /\ moves' = <<newMove>> \o moves
      /\ capturedPieces' = pushCaptured(capturedPieces, result.capturedPiece)
      /\ castlingRights' = updateCastlingRights(castlingRights, newMove)
      /\ enPassantTarget' = updateEnPassantTarget(newMove)
      /\ promotionPending' = NoPending
      /\ UNCHANGED <<isCheck, isCheckmate, gameOver>>

executeMove(from, to, movingPiece, promotedTo) ==
  LET result == moveOnBoard(board, enPassantTarget, from, to, movingPiece, promotedTo)
      newMove == newMoveOf(board, enPassantTarget, from, to, movingPiece, promotedTo)
  IN  /\ board' = result.newBoard
      /\ currentPlayer' = otherPlayer(currentPlayer)
      /\ selectedSquare' = NoSquare
      /\ validMoves' = {}
      /\ moves' = Append(moves, newMove)
      /\ capturedPieces' = pushCaptured(capturedPieces, result.capturedPiece)
      /\ castlingRights' = updateCastlingRights(castlingRights, newMove)
      /\ enPassantTarget' = updateEnPassantTarget(newMove)
      /\ promotionPending' = NoPending
      /\ UNCHANGED <<isCheck, isCheckmate, gameOver>>

\* A second run of executeMove in the same event: the gameState prop is the
\* one the first run read, so every field is computed as in the first run
\* and the later onGameStateChange wins; but { ...gameState.capturedPieces }
\* holds the arrays the first run has already pushed into, and this run
\* pushes again.
executeMoveAgain(from, to, movingPiece, promotedTo) ==
  LET result == moveOnBoard(board, enPassantTarget, from, to, movingPiece, promotedTo)
      newMove == newMoveOf(board, enPassantTarget, from, to, movingPiece, promotedTo)
  IN  /\ board' = result.newBoard
      /\ currentPlayer' = otherPlayer(currentPlayer)
      /\ selectedSquare' = NoSquare
      /\ validMoves' = {}
      /\ moves' = Append(moves, newMove)
      /\ capturedPieces' =
           pushCaptured(pushCaptured(capturedPieces, result.capturedPiece),
                        result.capturedPiece)
      /\ castlingRights' = updateCastlingRights(castlingRights, newMove)
      /\ enPassantTarget' = updateEnPassantTarget(newMove)
      /\ promotionPending' = NoPending
      /\ UNCHANGED <<isCheck, isCheckmate, gameOver>>

select(square) ==
  /\ selectedSquare' = square
  /\ validMoves' = getValidMovesForPiece(square, board)
  /\ UNCHANGED <<board, currentPlayer, moves, capturedPieces, castlingRights,
                 enPassantTarget, promotionPending, isCheck, isCheckmate, gameOver>>

\* deselect that leaves the highlighted destinations in place.
deselect_keepsValidMoves ==
  /\ selectedSquare' = NoSquare
  /\ UNCHANGED <<board, currentPlayer, validMoves, moves, capturedPieces,
                 castlingRights, enPassantTarget, promotionPending,
                 isCheck, isCheckmate, gameOver>>

deselect ==
  /\ selectedSquare' = NoSquare
  /\ validMoves' = {}
  /\ UNCHANGED <<board, currentPlayer, moves, capturedPieces, castlingRights,
                 enPassantTarget, promotionPending, isCheck, isCheckmate, gameOver>>

\* enterPromotion that already puts the pawn on the promotion square.
enterPromotion_movesPawn(square, movingPiece) ==
  /\ promotionPending' = [square |-> square, color |-> movingPiece.color]
  /\ board' = [board EXCEPT ![selectedSquare] = NoPiece, ![square] = movingPiece]
  /\ UNCHANGED <<currentPlayer, selectedSquare, validMoves, moves,
                 capturedPieces, castlingRights, enPassantTarget,
                 isCheck, isCheckmate, gameOver>>

\* enterPromotion that drops the selection when it opens the dialog.
enterPromotion_dropsSelection(square, movingPiece) ==
  /\ promotionPending' = [square |-> square, color |-> movingPiece.color]
  /\ selectedSquare' = NoSquare
  /\ validMoves' = {}
  /\ UNCHANGED <<board, currentPlayer, moves, capturedPieces, castlingRights,
                 enPassantTarget, isCheck, isCheckmate, gameOver>>

enterPromotion(square, movingPiece) ==
  /\ promotionPending' = [square |-> square, color |-> movingPiece.color]
  /\ UNCHANGED <<board, currentPlayer, selectedSquare, validMoves, moves,
                 capturedPieces, castlingRights, enPassantTarget,
                 isCheck, isCheckmate, gameOver>>

handleSquareClick(square) ==
  LET piece == board[square]
  IN  IF selectedSquare # NoSquare
      THEN IF isSameSquare(selectedSquare, square) THEN deselect
           ELSE IF isValidMove(selectedSquare, square, board, gameStateAux)
           THEN LET movingPiece == board[selectedSquare]
                IN  IF movingPiece = NoPiece THEN UNCHANGED vars
                    ELSE IF isPromotionMove(selectedSquare, square, movingPiece)
                    THEN enterPromotion(square, movingPiece)
                    ELSE executeMove(selectedSquare, square, movingPiece, NoType)
           ELSE IF piece # NoPiece /\ piece.color = currentPlayer THEN select(square)
           ELSE deselect
      ELSE IF piece # NoPiece /\ piece.color = currentPlayer THEN select(square)
           ELSE UNCHANGED vars

\* The click commits a move: the branch of handleSquareClick that reaches
\* executeMove.
commitsMove(square) ==
  /\ selectedSquare # NoSquare
  /\ ~isSameSquare(selectedSquare, square)
  /\ isValidMove(selectedSquare, square, board, gameStateAux)
  /\ board[selectedSquare] # NoPiece
  /\ ~isPromotionMove(selectedSquare, square, board[selectedSquare])

\* handleSquareClick run twice in one event, both runs on the same gameState
\* prop.  Selection, deselection and the opening of the promotion dialog give
\* the state one run gives; a commit is executeMove run twice.
handleSquareClickTwice(square) ==
  IF commitsMove(square)
  THEN executeMoveAgain(selectedSquare, square, board[selectedSquare], NoType)
  ELSE handleSquareClick(square)

\* ChessSquare.handleClick is the onClick of the square's div and, when the
\* square holds a piece, also of the ChessPiece div inside it; neither stops
\* the propagation.  A click on the piece graphic calls onClick(square) for
\* the piece and again for the square as the event bubbles; a click on the
\* square beside the graphic, or on an empty square, calls it once.  Where
\* no move is committed the two runs leave the state of one run, which the
\* first disjunct gives.
handleClick(square) ==
  \/ handleSquareClick(square)
  \/ /\ board[square] # NoPiece
     /\ commitsMove(square)
     /\ handleSquareClickTwice(square)

(***************************************************************************)
(* hooks/useChessGame.ts.  Each handler runs against the rendered          *)
(* snapshot and the next handler runs after the re-render, so prevState    *)
(* in the functional updates is the snapshot the handler read.             *)
(***************************************************************************)
createInitialGameState ==
  /\ board = createInitialBoard
  /\ currentPlayer = "white"
  /\ selectedSquare = NoSquare
  /\ validMoves = {}
  /\ moves = <<>>
  /\ capturedPieces = [white |-> <<>>, black |-> <<>>]
  /\ castlingRights = initialCastlingRights
  /\ enPassantTarget = NoSquare
  /\ promotionPending = NoPending
  /\ isCheck = FALSE
  /\ isCheckmate = FALSE
  /\ gameOver = FALSE

\* handleNewGame that keeps the castling rights of the game it ends.
handleNewGame_keepsCastlingRights ==
  /\ board' = createInitialBoard
  /\ currentPlayer' = "white"
  /\ selectedSquare' = NoSquare
  /\ validMoves' = {}
  /\ moves' = <<>>
  /\ capturedPieces' = [white |-> <<>>, black |-> <<>>]
  /\ enPassantTarget' = NoSquare
  /\ promotionPending' = NoPending
  /\ isCheck' = FALSE
  /\ isCheckmate' = FALSE
  /\ gameOver' = FALSE
  /\ UNCHANGED castlingRights

handleNewGame ==
  /\ board' = createInitialBoard
  /\ currentPlayer' = "white"
  /\ selectedSquare' = NoSquare
  /\ validMoves' = {}
  /\ moves' = <<>>
  /\ capturedPieces' = [white |-> <<>>, black |-> <<>>]
  /\ castlingRights' = initialCastlingRights
  /\ enPassantTarget' = NoSquare
  /\ promotionPending' = NoPending
  /\ isCheck' = FALSE
  /\ isCheckmate' = FALSE
  /\ gameOver' = FALSE

\* setBoardFlipped(prev => !prev)
handleFlipBoard == boardFlipped' = ~boardFlipped

\* useChessGame's executeMove that leaves the en-passant target as it was.
hookExecuteMove_keepsEnPassantTarget(from, to, movingPiece, promotedTo) ==
  LET result == moveOnBoard(board, enPassantTarget, from, to, movingPiece, promotedTo)
      newMove == newMoveOf(board, enPassantTarget, from, to, movingPiece, promotedTo)
  IN  /\ board' = result.newBoard
      /\ currentPlayer' = otherPlayer(currentPlayer)
      /\ selectedSquare' = NoSquare
      /\ validMoves' = {}
      /\ moves' = Append(moves, newMove)
      /\ capturedPieces' = pushCaptured(capturedPieces, result.capturedPiece)
      /\ castlingRights' = updateCastlingRights(castlingRights, newMove)
      /\ promotionPending' = NoPending
      /\ UNCHANGED <<enPassantTarget, isCheck, isCheckmate, gameOver>>

hookExecuteMove(from, to, movingPiece, promotedTo) ==
  LET result == moveOnBoard(board, enPassantTarget, from, to, movingPiece, promotedTo)
      newMove == newMoveOf(board, enPassantTarget, from, to, movingPiece, promotedTo)
  IN  /\ board' = result.newBoard
      /\ currentPlayer' = otherPlayer(currentPlayer)
      /\ selectedSquare' = NoSquare
      /\ validMoves' = {}
      /\ moves' = Append(moves, newMove)
      /\ capturedPieces' = pushCaptured(capturedPieces, result.capturedPiece)
      /\ castlingRights' = updateCastlingRights(castlingRights, newMove)
      /\ enPassantTarget' = updateEnPassantTarget(newMove)
      /\ promotionPending' = NoPending
      /\ UNCHANGED <<isCheck, isCheckmate, gameOver>>

handlePromotion(pieceType) ==
  IF promotionPending = NoPending \/ selectedSquare = NoSquare THEN UNCHANGED vars
  ELSE LET movingPiece == board[selectedSquare]
       IN  IF movingPiece = NoPiece THEN UNCHANGED vars
           ELSE hookExecuteMove(selectedSquare, promotionPending.square, movingPiece, pieceType)

\* handlePromotionCancel that also hands the turn to the other player.
handlePromotionCancel_passesTurn ==
  /\ selectedSquare' = NoSquare
  /\ validMoves' = {}
  /\ promotionPending' = NoPending
  /\ currentPlayer' = otherPlayer(currentPlayer)
  /\ UNCHANGED <<board, moves, capturedPieces, castlingRights, enPassantTarget,
                 isCheck, isCheckmate, gameOver>>

handlePromotionCancel ==
  /\ selectedSquare' = NoSquare
  /\ validMoves' = {}
  /\ promotionPending' = NoPending
  /\ UNCHANGED <<board, currentPlayer, moves, capturedPieces, castlingRights,
                 enPassantTarget, isCheck, isCheckmate, gameOver>>

(***************************************************************************)
(* components/PromotionDialog.tsx and App.tsx                              *)
(***************************************************************************)
PROMOTION_PIECES == {"queen", "rook", "bishop", "knight"}

\* App renders the dialog iff promotionPending is set.  Its backdrop covers
\* the page: a click outside the dialog box is handleBackdropClick (cancel),
\* so the board and the game controls receive no click while it is open.
dialogOpen == promotionPending # NoPending

(***************************************************************************)
(* The game: construction, then any sequence of clicks and button presses. *)
(* A session is played on one part of the board: clickable is the set of   *)
(* squares the players click (the input of handleSquareClick), fixed when  *)
(* the session starts.                                                     *)
(***************************************************************************)
\* Longest game explored (plies).
MaxMoves == 9

\* a and b files: pawn advances, en passant, promotion, the b1 and b8 knights.
QueenSideSquares ==
  {<<6, 0>>, <<4, 0>>, <<3, 0>>, <<2, 1>>, <<1, 1>>, <<0, 1>>, <<3, 1>>, <<2, 0>>,
   <<0, 0>>, <<7, 1>>, <<5, 0>>}

\* e to h files: castling, king and rook moves.
KingSideSquares ==
  {<<7, 6>>, <<5, 5>>, <<6, 6>>, <<5, 6>>, <<7, 5>>, <<7, 4>>, <<7, 7>>,
   <<0, 6>>, <<2, 5>>}

\* d to h files around the kings: the e and f pawns, the white queen.
CentreSquares ==
  {<<6, 4>>, <<4, 4>>, <<1, 5>>, <<2, 5>>, <<3, 5>>, <<7, 3>>, <<3, 7>>, <<0, 4>>}

\* b to e files of white's back rank: queen-side castling.
LongCastleSquares ==
  {<<7, 1>>, <<5, 2>>, <<6, 3>>, <<5, 3>>, <<7, 2>>, <<5, 4>>, <<7, 3>>, <<7, 4>>,
   <<0, 6>>, <<2, 5>>}

\* a and b files with the b1 and g1 knights: a pawn advance past a piece.
JumpSquares ==
  {<<7, 1>>, <<5, 0>>, <<1, 1>>, <<3, 1>>, <<4, 1>>, <<6, 0>>, <<4, 0>>,
   <<7, 6>>, <<5, 5>>}

Sessions ==
  {QueenSideSquares, KingSideSquares, CentreSquares, LongCastleSquares, JumpSquares}

\* No direct call of the validator has been made.
NoProbe == [from |-> <<>>, to |-> <<>>, result |-> "none"]

Init ==
  /\ createInitialGameState
  /\ clickable \in Sessions
  /\ lastHandler = "createInitialGameState"
  /\ boardFlipped = FALSE
  /\ preMove = NoSnapshot
  /\ probe = NoProbe

\* The snapshot a committing handler was handed stays with its holder.
holdPreMove ==
  preMove' = IF Len(moves') = Len(moves) + 1 THEN snapshotOfGameState ELSE preMove

\* lastHandler names the handler that ran last; it is how the properties
\* below tell the handlers' steps apart.
ClickSquare ==
  /\ ~dialogOpen
  /\ \E square \in clickable : handleClick(square)
  /\ Len(moves') <= MaxMoves
  /\ lastHandler' = "handleSquareClick"
  /\ holdPreMove
  /\ UNCHANGED <<boardFlipped, clickable, probe>>

ChoosePromotion ==
  /\ dialogOpen
  /\ \E pieceType \in PROMOTION_PIECES : handlePromotion(pieceType)
  /\ Len(moves') <= MaxMoves
  /\ lastHandler' = "handlePromotion"
  /\ holdPreMove
  /\ UNCHANGED <<boardFlipped, clickable, probe>>

CancelPromotion ==
  /\ dialogOpen
  /\ handlePromotionCancel
  /\ lastHandler' = "handlePromotionCancel"
  /\ UNCHANGED <<boardFlipped, clickable, preMove, probe>>

NewGame ==
  /\ ~dialogOpen
  /\ handleNewGame
  /\ lastHandler' = "handleNewGame"
  /\ preMove' = NoSnapshot
  /\ UNCHANGED <<boardFlipped, clickable, probe>>

Next == ClickSquare \/ ChoosePromotion \/ CancelPromotion \/ NewGame

Spec == Init /\ [][Next]_allvars

\* handlePromotion called with any value of its parameter type PieceType,
\* not only the four the dialog offers.
ChooseAnyPieceType ==
  /\ dialogOpen
  /\ \E pieceType \in PieceType : handlePromotion(pieceType)
  /\ Len(moves') <= MaxMoves
  /\ lastHandler' = "handlePromotion"
  /\ holdPreMove
  /\ UNCHANGED <<boardFlipped, clickable, probe>>

NextAnyPieceType == ClickSquare \/ ChooseAnyPieceType \/ CancelPromotion \/ NewGame

SpecAnyPieceType == Init /\ [][NextAnyPieceType]_allvars

(***************************************************************************)
(* The two controls of the hook, handleNewGame and handleFlipBoard, called *)
(* in any state: they take no argument and test nothing, whatever the      *)
(* state they are called in (a piece selected, a promotion pending).       *)
(***************************************************************************)
CallNewGame ==
  /\ handleNewGame
  /\ lastHandler' = "handleNewGame"
  /\ preMove' = NoSnapshot
  /\ UNCHANGED <<boardFlipped, clickable, probe>>

CallFlipBoard ==
  /\ handleFlipBoard
  /\ lastHandler' = "handleFlipBoard"
  /\ UNCHANGED <<vars, clickable, preMove, probe>>

NextControls ==
  ClickSquare \/ ChoosePromotion \/ CancelPromotion \/ CallNewGame \/ CallFlipBoard

\* The games in which the controls are pressed: the king-side session and
\* the squares of the queen-side session on which a pawn reaches promotion.
PromotionSquares == QueenSideSquares \ {<<7, 1>>, <<5, 0>>}

ControlSessions == {PromotionSquares, KingSideSquares}

InitControls ==
  /\ createInitialGameState
  /\ clickable \in ControlSessions
  /\ lastHandler = "createInitialGameState"
  /\ boardFlipped = FALSE
  /\ preMove = NoSnapshot
  /\ probe = NoProbe

SpecControls == InitControls /\ [][NextControls]_allvars

(***************************************************************************)
(* Direct calls of the exported validator, isValidMove(from, to, board,    *)
(* gameState), on boards of a few pieces.  The validator reads the board   *)
(* and, of gameState, castlingRights and enPassantTarget only.             *)
(***************************************************************************)
\* Most pieces on a board besides the piece under test.
MaxOthers == 2

\* Where the piece under test stands (d4, b2).
SubjectSquares == {<<4, 3>>, <<6, 1>>}

\* Where the other pieces, pawns of either colour, stand: on the lines through
\* the subject squares.
OtherSquares == {<<4, 5>>, <<2, 1>>, <<5, 1>>, <<4, 1>>, <<5, 2>>, <<2, 3>>}

\* Coordinates outside the 8 x 8 board handed to the validator.
OffBoardSquares ==
  {<<-1, 3>>, <<8, 1>>, <<4, 8>>, <<4, -1>>, <<8, 8>>, <<5, -1>>, <<7, -1>>, <<-1, 8>>}

\* The calls made: from a subject square to every square and to the
\* off-board coordinates, and from off-board coordinates.
\* The white king's home square: the origin of the calls about castling.
KingHome == <<7, 4>>

Calls ==
  (SubjectSquares \X (Square \cup OffBoardSquares))
    \cup ({<<-1, 0>>, <<8, 3>>, <<4, 8>>, <<4, -1>>} \X {<<4, 3>>, <<8, 8>>})
    \cup ({KingHome} \X Square)

\* board[row][col] for col outside 0..7 (row inside) is undefined, which the
\* validator's tests (!piece, targetPiece &&, !board[..][..]) treat as null.
withUndefinedColumns(b) ==
  [sq \in (0..7) \X (-1..8) |-> IF sq \in Square THEN b[sq] ELSE NoPiece]

\* One call of isValidMove with any two number pairs.  board[row] for row
\* outside 0..7 is undefined and indexing it throws a TypeError: at line 64
\* for from, at line 67 for to (reached only when the origin holds a piece).
isValidMoveCall(from, to, b, gameState) ==
  IF from[1] \notin 0..7 THEN "TypeError"
  ELSE IF from[2] \notin 0..7 THEN "false"
  ELSE IF b[from] = NoPiece THEN "false"
  ELSE IF to[1] \notin 0..7 THEN "TypeError"
  ELSE IF isValidMove(from, to, IF to[2] \in 0..7 THEN b ELSE withUndefinedColumns(b),
                      gameState)
       THEN "true" ELSE "false"

\* The en-passant target of the auxiliary state: none, or c3 left by the white
\* pawn now on c4 (row 4, column 2).  The target square itself may be occupied:
\* the two-square advance does not look at the square it passes.
EnPassantTargets == {NoSquare, <<5, 2>>}

InitValidator ==
  /\ enPassantTarget \in EnPassantTargets
  /\ \E subjectSquare \in SubjectSquares \cup {KingHome},
        type \in PieceType, color \in PieceColor :
       /\ subjectSquare = KingHome => type = "king" /\ color = "white"
       /\ castlingRights \in
            IF subjectSquare = KingHome
            THEN {[whiteKingSide |-> k, whiteQueenSide |-> q,
                   blackKingSide |-> FALSE, blackQueenSide |-> FALSE] :
                     k \in BOOLEAN, q \in BOOLEAN}
            ELSE {[whiteKingSide |-> FALSE, whiteQueenSide |-> FALSE,
                   blackKingSide |-> FALSE, blackQueenSide |-> FALSE]}
       /\ \E occupied \in {S \in SUBSET OtherSquares : Cardinality(S) <= MaxOthers} :
            \E colorOf \in [occupied -> PieceColor] :
              board = [sq \in Square |->
                         IF sq = subjectSquare THEN ChessPiece(type, color)
                         ELSE IF subjectSquare = KingHome /\ sq \in {<<7, 0>>, <<7, 7>>}
                         THEN ChessPiece("rook", "white")
                         ELSE IF enPassantTarget # NoSquare /\ sq = <<4, 2>>
                         THEN ChessPiece("pawn", "white")
                         ELSE IF sq \in occupied THEN ChessPiece("pawn", colorOf[sq])
                         ELSE NoPiece]
  /\ currentPlayer = IF enPassantTarget = NoSquare THEN "white" ELSE "black"
  /\ selectedSquare = NoSquare
  /\ validMoves = {}
  /\ moves = <<>>
  /\ capturedPieces = [white |-> <<>>, black |-> <<>>]
  /\ promotionPending = NoPending
  /\ isCheck = FALSE
  /\ isCheckmate = FALSE
  /\ gameOver = FALSE
  /\ clickable = {}
  /\ lastHandler = "none"
  /\ boardFlipped = FALSE
  /\ preMove = NoSnapshot
  /\ probe = NoProbe

\* The validator is pure: each behaviour makes one call on its board.
CallIsValidMove ==
  /\ probe = NoProbe
  /\ \E call \in Calls :
       probe' = [from |-> call[1], to |-> call[2],
                 result |-> isValidMoveCall(call[1], call[2], board, gameStateAux)]
  /\ lastHandler' = "isValidMove"
  /\ UNCHANGED <<vars, boardFlipped, clickable, preMove>>

NextValidator == CallIsValidMove

SpecValidator == InitValidator /\ [][NextValidator]_allvars

(***************************************************************************)
(* Properties                                                              *)
(***************************************************************************)
\* A step that commits a move appends it to the history.
Committed == Len(moves') = Len(moves) + 1

homeRow(color) == IF color = "white" THEN 7 ELSE 0

farthestRow(color) == IF color = "white" THEN 0 ELSE 7

TwoSquareAdvance(m) ==
  m.piece.type = "pawn" /\ m.from[2] = m.to[2] /\ Abs(m.from[1] - m.to[1]) = 2

PassedOver(m) == <<(m.from[1] + m.to[1]) \div 2, m.from[2]>>

\* C1: a committed two-square pawn advance sets enPassantTarget to the square
\* passed over; a move is an en-passant capture only on the target set by the
\* ply just before it; every other commit leaves no target, and the target is
\* never the same square after two consecutive plies.  Selecting, deselecting
\* and the promotion dialog leave the target alone.
C1_EnPassantWindow ==
  [][/\ Committed =>
          LET m == Last(moves')
          IN  /\ TwoSquareAdvance(m) => enPassantTarget' = PassedOver(m)
              /\ ~TwoSquareAdvance(m) => enPassantTarget' = NoSquare
              /\ m.isEnPassant =>
                   /\ Len(moves) > 0
                   /\ TwoSquareAdvance(Last(moves))
                   /\ m.to = PassedOver(Last(moves))
                   /\ enPassantTarget = m.to
              /\ (m.piece.type = "pawn" /\ m.from[2] # m.to[2] /\ board[m.to] = NoPiece)
                   => m.isEnPassant
              /\ enPassantTarget # NoSquare => enPassantTarget' # enPassantTarget
     /\ moves' = moves => enPassantTarget' = enPassantTarget
    ]_allvars

\* An en-passant capture followed by one more ply, after which no target is left.
C1_Witness ==
  /\ Len(moves) >= 3
  /\ TwoSquareAdvance(moves[Len(moves) - 2])
  /\ moves[Len(moves) - 1].isEnPassant
  /\ moves[Len(moves) - 1].to = PassedOver(moves[Len(moves) - 2])
  /\ enPassantTarget = NoSquare

castlingRight(rights, color, kingSide) ==
  IF color = "white"
  THEN (IF kingSide THEN rights.whiteKingSide ELSE rights.whiteQueenSide)
  ELSE (IF kingSide THEN rights.blackKingSide ELSE rights.blackQueenSide)

\* C2: a committed move flagged isCastling is made by a king on its original
\* square, with the matching right set, the squares between king and corner
\* empty and a rook of its colour on the corner; the one resulting board has
\* the king two files over and the rook next to it on the far side, and no
\* other square differs.
C2_CastlingPreconditions ==
  [][(Committed /\ Last(moves').isCastling) =>
       LET m == Last(moves')
           color == m.piece.color
           row == homeRow(color)
           kingSide == m.to[2] = 6
           corner == <<row, IF kingSide THEN 7 ELSE 0>>
           rookTo == <<row, IF kingSide THEN 5 ELSE 3>>
           between == IF kingSide THEN {5, 6} ELSE {1, 2, 3}
       IN  /\ m.piece.type = "king"
           /\ m.from = <<row, 4>>
           /\ board[m.from] = m.piece
           /\ m.to \in {<<row, 2>>, <<row, 6>>}
           /\ castlingRight(castlingRights, color, kingSide)
           /\ \A col \in between : board[<<row, col>>] = NoPiece
           /\ board[corner] = ChessPiece("rook", color)
           /\ board' = [board EXCEPT ![m.from] = NoPiece, ![m.to] = m.piece,
                                     ![corner] = NoPiece,
                                     ![rookTo] = ChessPiece("rook", color)]
    ]_allvars

\* A castling has just been committed.
C2_Witness ==
  /\ Len(moves) > 0
  /\ Last(moves).isCastling
  /\ board[Last(moves).to].type = "king"

startRow(color) == IF color = "white" THEN 6 ELSE 1

\* C3: on every board of a game, a pawn's two-square move along its file is
\* accepted by isValidMove only from the starting rank of its colour and only
\* if the square passed over and the destination are both empty.
C3_PawnDoubleStep ==
  \A from \in Square :
    board[from].type = "pawn" =>
      \A to \in {<<from[1] - 2, from[2]>>, <<from[1] + 2, from[2]>>} \cap Square :
        isValidMove(from, to, board, gameStateAux) =>
          /\ from[1] = startRow(board[from].color)
          /\ to[1] = from[1] + (IF board[from].color = "white" THEN -2 ELSE 2)
          /\ board[<<(from[1] + to[1]) \div 2, from[2]>>] = NoPiece
          /\ board[to] = NoPiece

\* The fields of the snapshot that only a committed move may change.
gameFields == <<board, currentPlayer, moves, capturedPieces, castlingRights, enPassantTarget>>

C5_CancelRestores ==
  [][/\ lastHandler' = "handlePromotionCancel" =>
          /\ promotionPending # NoPending
          /\ promotionPending' = NoPending
          /\ selectedSquare' = NoSquare
          /\ validMoves' = {}
          /\ UNCHANGED gameFields
     /\ (promotionPending # NoPending /\ promotionPending' # NoPending) =>
          UNCHANGED gameFields
     /\ (promotionPending = NoPending /\ promotionPending' # NoPending) =>
          UNCHANGED gameFields
    ]_allvars

\* A promotion was cancelled: the pawn is back to waiting on its seventh rank.
C5_Witness ==
  /\ lastHandler = "handlePromotionCancel"
  /\ promotionPending = NoPending
  /\ \E sq \in Square :
       /\ board[sq] = ChessPiece("pawn", currentPlayer)
       /\ Abs(sq[1] - farthestRow(currentPlayer)) = 1

\* C6: a handlePromotion step with a promotion pending commits the deferred
\* move: the pawn's square becomes empty, the pending square holds a piece of
\* the chosen type and the pawn's colour, the appended Move records the pawn,
\* isPromotion and promotedTo, and the rest is as for a normal move: the
\* occupant of the destination is captured into the mover's list, the turn
\* passes, no en-passant target is left and the selection and the pending
\* record are cleared.
C6_PromotionCommits ==
  [][lastHandler' = "handlePromotion" =>
       LET from == selectedSquare
           to == promotionPending.square
           pawn == board[from]
           m == Last(moves')
       IN  /\ promotionPending # NoPending
           /\ from # NoSquare
           /\ pawn = ChessPiece("pawn", promotionPending.color)
           /\ moves' = Append(moves, m)
           /\ m.promotedTo \in PROMOTION_PIECES
           /\ board' = [board EXCEPT ![from] = NoPiece,
                                     ![to] = ChessPiece(m.promotedTo, pawn.color)]
           /\ m.from = from /\ m.to = to /\ m.piece = pawn
           /\ m.isPromotion /\ ~m.isCastling /\ ~m.isEnPassant
           /\ m.capturedPiece = board[to]
           /\ capturedPieces' =
                IF board[to] = NoPiece THEN capturedPieces
                ELSE [capturedPieces EXCEPT ![pawn.color] = Append(@, board[to])]
           /\ currentPlayer = pawn.color
           /\ currentPlayer' = otherPlayer(currentPlayer)
           /\ enPassantTarget' = NoSquare
           /\ promotionPending' = NoPending
           /\ selectedSquare' = NoSquare
           /\ validMoves' = {}
           /\ castlingRights' = castlingRights
    ]_allvars

\* A promotion that captured has just been committed.
C6_Witness ==
  /\ lastHandler = "handlePromotion"
  /\ Len(moves) > 0
  /\ Last(moves).isPromotion
  /\ Last(moves).capturedPiece # NoPiece
  /\ board[Last(moves).to] = ChessPiece(Last(moves).promotedTo, Last(moves).piece.color)

\* C7: a request to promote to pawn or king is rejected: the step changes no
\* field of the state, so promotionPending stays set and no pawn or king is
\* put on the promotion square.
C7_InvalidPromotionRejected ==
  [][\A pieceType \in {"pawn", "king"} :
       (dialogOpen /\ handlePromotion(pieceType)) => UNCHANGED vars
    ]_allvars

rightNames == {"whiteKingSide", "whiteQueenSide", "blackKingSide", "blackQueenSide"}

\* C8: within a game (any step but a new game) a castling right that is false
\* stays false.
C8_RightsMonotonic ==
  [][lastHandler' # "handleNewGame" =>
       \A name \in rightNames : ~castlingRights[name] => ~castlingRights'[name]
    ]_allvars

\* White lost a right at least two plies ago and the game went on.
C8_Witness ==
  /\ Len(moves) >= 3
  /\ \E i \in 1..(Len(moves) - 2) :
       moves[i].piece.color = "white" /\ moves[i].piece.type \in {"king", "rook"}
  /\ ~castlingRights.whiteKingSide
  /\ castlingRights.blackKingSide

\* C9: after a committed move by a king both rights of its colour are false;
\* after a move by a rook that left a corner of its own home row the matching
\* right is false; after any other move the four rights are those of before.
\* No step other than a commit or a new game changes the rights.
C9_RightsUpdate ==
  [][/\ Committed =>
          LET m == Last(moves')
              color == m.piece.color
              fromCorner == m.from[1] = homeRow(color) /\ m.from[2] \in {0, 7}
          IN  /\ m.piece.type = "king" =>
                   /\ ~castlingRight(castlingRights', color, TRUE)
                   /\ ~castlingRight(castlingRights', color, FALSE)
              /\ (m.piece.type = "rook" /\ fromCorner) =>
                   ~castlingRight(castlingRights', color, m.from[2] = 7)
              /\ (m.piece.type # "king" /\ ~(m.piece.type = "rook" /\ fromCorner)) =>
                   castlingRights' = castlingRights
     /\ (~Committed /\ lastHandler' # "handleNewGame") => castlingRights' = castlingRights
    ]_allvars

\* A rook has left its king-side corner (one right lost), and later in the
\* same game a rook moved from a square that is not a corner.
C9_Witness ==
  /\ Len(moves) >= 3
  /\ \E i \in 1..(Len(moves) - 1) :
       moves[i].piece = ChessPiece("rook", "white") /\ moves[i].from = <<7, 7>>
  /\ Last(moves).piece.type = "rook"
  /\ Last(moves).from \notin {<<7, 0>>, <<7, 7>>, <<0, 0>>, <<0, 7>>}
  /\ ~castlingRights.whiteKingSide
  /\ castlingRights.whiteQueenSide

\* C10: a committed move passes the turn, appends exactly one Move to the
\* history, clears selectedSquare, validMoves and promotionPending, and sets
\* the castling rights and the en-passant target to what updateCastlingRights
\* and updateEnPassantTarget give for the pre-move state and the new Move; the
\* Move is that of the piece that stood on its origin.  The board changes only
\* by a commit or a new game.
C10_CommitBookkeeping ==
  [][/\ Committed =>
          LET m == Last(moves')
          IN  /\ moves' = Append(moves, m)
              /\ currentPlayer' = otherPlayer(currentPlayer)
              /\ selectedSquare' = NoSquare
              /\ validMoves' = {}
              /\ promotionPending' = NoPending
              /\ castlingRights' = updateCastlingRights(castlingRights, m)
              /\ enPassantTarget' = updateEnPassantTarget(m)
              /\ m.from = selectedSquare
              /\ m.piece = board[m.from]
              /\ m.piece.color = currentPlayer
              /\ board'[m.from] = NoPiece
              /\ board'[m.to].color = currentPlayer
     /\ (board' # board /\ lastHandler' # "handleNewGame") => Committed
    ]_allvars

\* A capturing move has just been committed by a click.
C10_Witness ==
  /\ Len(moves) >= 2
  /\ lastHandler = "handleSquareClick"
  /\ selectedSquare = NoSquare
  /\ Last(moves).capturedPiece # NoPiece
  /\ currentPlayer = otherPlayer(Last(moves).piece.color)

\* C11: committing a move never changes the GameState value the move was
\* computed from: the board, the history and both capturedPieces lists of the
\* pre-move snapshot still hold what they held when executeMove was called.
C11_PreMoveSnapshotIntact ==
  preMove # NoSnapshot =>
    /\ preMove.board \in [Square -> {NoPiece} \cup {ChessPiece(t, c) : t \in PieceType, c \in PieceColor}]
    /\ Len(preMove.moves) + 1 <= Len(moves)
    /\ readCapturedPieces(preMove) = preMove.contents

pieceCount(b, piece) == Cardinality({sq \in Square : b[sq] = piece})

capturedSet(lists) ==
  {lists.white[i] : i \in 1..Len(lists.white)} \cup {lists.black[i] : i \in 1..Len(lists.black)}

\* C12: exactly one king of each colour is on the board, and no king is in
\* either capturedPieces list.
C12_OneKingEach ==
  \A color \in PieceColor :
    /\ pieceCount(board, ChessPiece("king", color)) = 1
    /\ ChessPiece("king", color) \notin capturedSet(capturedPieces)

\* No move of the player to move leaves their own king unattacked.
noEscape ==
  \A from \in Square : \A to \in Square :
    (/\ board[from] # NoPiece
     /\ board[from].color = currentPlayer
     /\ isValidMove(from, to, board, gameStateAux))
    => kingAttacked(moveOnBoard(board, enPassantTarget, from, to, board[from], NoType).newBoard,
                    currentPlayer, NoAuxState)

\* C13: check and checkmate are detected: once a committed move leaves the
\* king of the player to move attacked, isCheck is true, and when no move of
\* that player removes the attack isCheckmate and gameOver are true.
C13_CheckDetected ==
  (Len(moves) > 0 /\ kingAttacked(board, currentPlayer, gameStateAux)) =>
    /\ isCheck
    /\ noEscape => (isCheckmate /\ gameOver)

probeOnBoard == probe # NoProbe /\ probe.from \in Square /\ probe.to \in Square

\* The squares strictly between two squares of one row, column or diagonal.
Between(from, to) ==
  {sq \in Square :
     /\ sq # from /\ sq # to
     /\ (sq[1] - from[1]) * (to[2] - from[2]) = (sq[2] - from[2]) * (to[1] - from[1])
     /\ (sq[1] - from[1]) * (sq[1] - to[1]) <= 0
     /\ (sq[2] - from[2]) * (sq[2] - to[2]) <= 0}

\* The vector from -> to fits the piece type's line of movement.
slidingGeometry(type, from, to) ==
  LET straight == (from[1] = to[1]) # (from[2] = to[2])
      diagonal == from # to /\ (to[1] - from[1]) * (to[1] - from[1]) = (to[2] - from[2]) * (to[2] - from[2])
  IN  CASE type = "rook" -> straight
        [] type = "bishop" -> diagonal
        [] type = "queen" -> straight \/ diagonal

\* C15: for a rook, bishop or queen, isValidMove is false when a square
\* strictly between origin and destination is occupied (by either colour),
\* false when the vector does not fit the piece's geometry, and true
\* otherwise when the destination is empty or holds an enemy piece.
C15_SlidingMoves ==
  (probeOnBoard /\ board[probe.from].type \in {"rook", "bishop", "queen"}) =>
    LET piece == board[probe.from]
        target == board[probe.to]
        fits == slidingGeometry(piece.type, probe.from, probe.to)
        blocked == \E sq \in Between(probe.from, probe.to) : board[sq] # NoPiece
    IN  /\ (fits /\ blocked) => probe.result = "false"
        /\ ~fits => probe.result = "false"
        /\ (fits /\ ~blocked /\ (target = NoPiece \/ target.color # piece.color))
             => probe.result = "true"

\* A queen's call along a line with a piece in between has been answered false,
\* the destination being empty.
C15_Witness ==
  /\ probeOnBoard
  /\ board[probe.from].type = "queen"
  /\ slidingGeometry("queen", probe.from, probe.to)
  /\ \E sq \in Between(probe.from, probe.to) : board[sq] # NoPiece
  /\ board[probe.to] = NoPiece
  /\ probe.result = "false"

\* C16: isValidMove is false for every empty origin and every destination, and
\* false whenever the destination holds a piece of the mover's colour, the
\* origin itself included, whatever the piece type.
C16_EmptyOriginOwnTarget ==
  probeOnBoard =>
    /\ board[probe.from] = NoPiece => probe.result = "false"
    /\ (board[probe.from] # NoPiece /\ board[probe.to] # NoPiece
          /\ board[probe.to].color = board[probe.from].color)
         => probe.result = "false"

\* A call whose destination holds another piece of the mover's colour, on a
\* square the piece could otherwise capture on, has been answered false.
C16_Witness ==
  /\ probeOnBoard
  /\ board[probe.from] # NoPiece
  /\ probe.to # probe.from
  /\ board[probe.to] # NoPiece
  /\ board[probe.to].color = board[probe.from].color
  /\ Abs(probe.to[1] - probe.from[1]) = 1 /\ Abs(probe.to[2] - probe.from[2]) = 1
  /\ probe.result = "false"

\* C17: isValidMove returns false, without failing, for every call whose
\* origin or destination has a row or column outside 0..7.
C17_OffBoardRejected ==
  (probe # NoProbe /\ (probe.from \notin Square \/ probe.to \notin Square)) =>
    probe.result = "false"

\* File letter and rank digit of a square: files a..h are columns 0..7,
\* ranks 8..1 are rows 0..7.
squareName(sq) ==
  <<"a", "b", "c", "d", "e", "f", "g", "h">>[sq[2] + 1] \o ToString(8 - sq[1])

allRightsSet(rights) ==
  /\ rights.whiteKingSide /\ rights.whiteQueenSide
  /\ rights.blackKingSide /\ rights.blackQueenSide

\* The opening move of the white pawn from (6,4) to (4,4) is "e4", sets the
\* en-passant target (5,4), keeps all four rights and gives black the move.
firstMoveE4 ==
  (Committed /\ moves = <<>> /\ selectedSquare = <<6, 4>> /\ Last(moves').to = <<4, 4>>) =>
    /\ Last(moves').notation = "e4"
    /\ enPassantTarget' = <<5, 4>>
    /\ allRightsSet(castlingRights')
    /\ currentPlayer' = "black"

\* C18 as stated: the opening move e2-e4 is "e4" with target (5,4), all rights
\* and black to move, and every non-capturing pawn move is notated as just its
\* destination's file letter and rank digit.
C18_PawnMoveNotation ==
  [][/\ firstMoveE4
     /\ (Committed /\ Last(moves').piece.type = "pawn"
           /\ Last(moves').capturedPiece = NoPiece)
          => Last(moves').notation = squareName(Last(moves').to)
    ]_allvars

\* C18 amended: the same, for every non-capturing pawn move that is not a
\* promotion.
C18_PawnMoveNotationNoPromotion ==
  [][/\ firstMoveE4
     /\ (Committed /\ Last(moves').piece.type = "pawn"
           /\ Last(moves').capturedPiece = NoPiece /\ ~Last(moves').isPromotion)
          => Last(moves').notation = squareName(Last(moves').to)
    ]_allvars

\* 1. e4 has just been played from the initial state.
C18_Witness ==
  /\ Len(moves) = 1
  /\ moves[1].from = <<6, 4>> /\ moves[1].to = <<4, 4>>
  /\ moves[1].notation = "e4"
  /\ enPassantTarget = <<5, 4>>
  /\ currentPlayer = "black"

\* C19: a committed castling is notated "O-O" on the king's side, leaving the
\* king on column 6, the rook on column 5 and columns 4 and 7 of that row
\* empty, and "O-O-O" on the queen's side, leaving the king on column 2, the
\* rook on column 3 and columns 0 and 4 empty; no other square changes and no
\* piece is captured.
C19_CastlingResult ==
  [][(Committed /\ Last(moves').isCastling) =>
       LET m == Last(moves')
           row == m.from[1]
           color == m.piece.color
           kingSide == m.to[2] > m.from[2]
           touched == IF kingSide THEN {<<row, 4>>, <<row, 5>>, <<row, 6>>, <<row, 7>>}
                      ELSE {<<row, 0>>, <<row, 2>>, <<row, 3>>, <<row, 4>>}
       IN  /\ kingSide =>
                /\ m.notation = "O-O"
                /\ board'[<<row, 6>>] = ChessPiece("king", color)
                /\ board'[<<row, 5>>] = ChessPiece("rook", color)
                /\ board'[<<row, 4>>] = NoPiece /\ board'[<<row, 7>>] = NoPiece
           /\ ~kingSide =>
                /\ m.notation = "O-O-O"
                /\ board'[<<row, 2>>] = ChessPiece("king", color)
                /\ board'[<<row, 3>>] = ChessPiece("rook", color)
                /\ board'[<<row, 0>>] = NoPiece /\ board'[<<row, 4>>] = NoPiece
           /\ \A sq \in Square \ touched : board'[sq] = board[sq]
           /\ m.capturedPiece = NoPiece
           /\ capturedPieces' = capturedPieces
    ]_allvars

\* A queen-side castling has just been committed.
C19_Witness ==
  /\ Len(moves) > 0
  /\ Last(moves).notation = "O-O-O"
  /\ board[<<7, 2>>] = ChessPiece("king", "white")
  /\ board[<<7, 3>>] = ChessPiece("rook", "white")

\* C20: a committed move flagged isEnPassant puts the pawn on an empty
\* destination and removes exactly one other piece, the enemy pawn beside the
\* origin (one rank behind the destination) that made the two-square advance
\* on the ply before; that pawn is the Move's capturedPiece and is appended to
\* the mover's capturedPieces list; nothing else leaves the board.
C20_EnPassantCapture ==
  [][(Committed /\ Last(moves').isEnPassant) =>
       LET m == Last(moves')
           victim == <<m.from[1], m.to[2]>>
       IN  /\ board[m.to] = NoPiece
           /\ moves # <<>> /\ TwoSquareAdvance(Last(moves)) /\ Last(moves).to = victim
           /\ board[victim] = ChessPiece("pawn", otherPlayer(m.piece.color))
           /\ m.capturedPiece = board[victim]
           /\ capturedPieces' = [capturedPieces EXCEPT
                                   ![m.piece.color] = Append(@, board[victim])]
           /\ board' = [board EXCEPT ![m.from] = NoPiece, ![m.to] = m.piece,
                                     ![victim] = NoPiece]
    ]_allvars

\* Every piece of the list has that colour.
allOfColor(list, color) == \A i \in 1..Len(list) : list[i].color = color

capturingMoves(history) == {i \in 1..Len(history) : history[i].capturedPiece # NoPiece}

upperInitial(type) ==
  [pawn |-> "P", rook |-> "R", knight |-> "K", bishop |-> "B", queen |-> "Q",
   king |-> "K"][type]

fileLetter(col) == <<"a", "b", "c", "d", "e", "f", "g", "h">>[col + 1]

\* Every notation of the grammar that carries the capture marker.
MarkedNotations ==
  {letter \o file \o "x" \o squareName(sq) \o ep \o promotion :
     letter \in {"", "R", "K", "B", "Q"},
     file \in {""} \cup {fileLetter(col) : col \in 0..7},
     sq \in Square,
     ep \in {"", " e.p."},
     promotion \in {""} \cup {"=" \o upperInitial(type) : type \in PieceType}}

\* C23: the notation of a non-castling move is the piece letter (uppercase
\* initial of the type, none for a pawn), then "x" iff a piece was captured or
\* the move is en passant (after the origin file letter when a pawn moves),
\* then the destination's file letter and rank digit, then " e.p." iff en
\* passant, then "=" and the promoted piece's letter iff promotion; and every
\* Move of the history carries the marker iff it records a capturedPiece.
C23_NotationGrammar ==
  \A i \in 1..Len(moves) :
    LET m == moves[i]
        letter == IF m.piece.type = "pawn" THEN "" ELSE upperInitial(m.piece.type)
        marker == IF m.capturedPiece # NoPiece \/ m.isEnPassant
                  THEN (IF m.piece.type = "pawn" THEN fileLetter(m.from[2]) ELSE "") \o "x"
                  ELSE ""
        ep == IF m.isEnPassant THEN " e.p." ELSE ""
        promotion == IF m.isPromotion THEN "=" \o upperInitial(m.promotedTo) ELSE ""
    IN  /\ ~m.isCastling =>
             m.notation = letter \o marker \o squareName(m.to) \o ep \o promotion
        /\ (m.notation \in MarkedNotations) <=> (m.capturedPiece # NoPiece)

\* The history holds an en-passant capture and ends with a capturing
\* promotion.
C23_Witness ==
  /\ Len(moves) > 0
  /\ \E i \in 1..Len(moves) : moves[i].isEnPassant
  /\ Last(moves).isPromotion
  /\ Last(moves).capturedPiece # NoPiece

\* The destinations the validator accepts from a square in the current state.
acceptedFrom(from) ==
  {to \in Square : isValidMove(from, to, board, AuxState(castlingRights, enPassantTarget))}

selectionConsistent ==
  /\ selectedSquare = NoSquare => validMoves = {}
  /\ selectedSquare # NoSquare =>
       /\ board[selectedSquare] # NoPiece
       /\ board[selectedSquare].color = currentPlayer
       /\ validMoves = acceptedFrom(selectedSquare)

\* C24: with no square selected validMoves is empty; a selected square holds
\* a piece of the player to move and validMoves is exactly the set of squares
\* isValidMove accepts from it on the current board and auxiliary state; a
\* click commits a move only to a square of that set.
C24_SelectionInvariant ==
  [][/\ selectionConsistent
     /\ selectionConsistent'
     /\ (Committed /\ lastHandler' = "handleSquareClick") =>
          /\ Last(moves').from = selectedSquare
          /\ Last(moves').to \in validMoves
    ]_allvars

\* A piece whose accepted destinations include a square of the last row is
\* selected after at least one committed move.
C24_Witness ==
  /\ selectedSquare # NoSquare
  /\ Len(moves) >= 1
  /\ \E to \in validMoves : to[1] = 7
  /\ validMoves = acceptedFrom(selectedSquare)

unselected == selectedSquare' = NoSquare /\ validMoves' = {}

gameUntouched ==
  UNCHANGED <<board, currentPlayer, moves, capturedPieces, castlingRights, enPassantTarget>>

\* C25: with a piece selected, a click on the selected square, or on an empty
\* or opponent square that is not a legal destination, clears selectedSquare
\* and validMoves; a click on another own piece selects that piece; with
\* nothing selected a click on an empty or opponent square changes nothing;
\* none of these clicks changes board, currentPlayer, history, capture lists,
\* castling rights or enPassantTarget.
C25_RejectedClicks ==
  [][\A square \in clickable :
       (~dialogOpen /\ lastHandler' = "handleSquareClick" /\ handleSquareClick(square)) =>
         LET own == board[square] # NoPiece /\ board[square].color = currentPlayer
         IN  /\ (selectedSquare # NoSquare /\ square = selectedSquare)
                  => (unselected /\ gameUntouched)
             /\ (selectedSquare # NoSquare /\ square # selectedSquare /\ ~own
                   /\ ~isValidMove(selectedSquare, square, board,
                                   AuxState(castlingRights, enPassantTarget)))
                  => (unselected /\ gameUntouched)
             /\ (selectedSquare # NoSquare /\ square # selectedSquare /\ own)
                  => /\ selectedSquare' = square
                     /\ validMoves' = acceptedFrom(square)
                     /\ gameUntouched
             /\ (selectedSquare = NoSquare /\ ~own) => UNCHANGED vars
    ]_allvars

\* A click has left nothing selected and the game as it started.
C25_Witness ==
  /\ lastHandler = "handleSquareClick"
  /\ selectedSquare = NoSquare
  /\ validMoves = {}
  /\ moves = <<>>
  /\ board = createInitialBoard

\* C26: the player to move is white iff the history length is even, the i-th
\* Move (0-based) was made by a white piece iff i is even, and no step moves a
\* piece of a colour other than the player to move.
C26_TurnOrder ==
  [][/\ (currentPlayer' = "white") <=> (Len(moves') % 2 = 0)
     /\ \A i \in 1..Len(moves') : (moves'[i].piece.color = "white") <=> ((i - 1) % 2 = 0)
     /\ board' # board /\ lastHandler' # "handleNewGame" =>
          /\ Last(moves').piece.color = currentPlayer
          /\ board[Last(moves').from] = Last(moves').piece
          /\ \A sq \in Square :
               (board'[sq] # board[sq] /\ board'[sq] # NoPiece)
                 => board'[sq].color = currentPlayer
    ]_allvars

\* Black has just answered white's second move.
C26_Witness ==
  /\ Len(moves) = 4
  /\ currentPlayer = "white"
  /\ Last(moves).piece.color = "black"
  /\ moves[3].piece.color = "white"

\* C27 as stated: across any single step the history stays identical or gains
\* exactly one Move at the end, recorded Moves never change, and the history
\* grows exactly when currentPlayer flips.
C27_HistoryAppendOnly ==
  [][/\ \/ moves' = moves
        \/ /\ Len(moves') = Len(moves) + 1
           /\ \A i \in 1..Len(moves) : moves'[i] = moves[i]
     /\ (Len(moves') > Len(moves)) <=> (currentPlayer' # currentPlayer)
    ]_allvars

\* C27 amended: the same across every step other than a new game; a new game
\* empties the history and gives white the move.
C27_HistoryAppendOnlyWithinGame ==
  [][/\ lastHandler' # "handleNewGame" =>
          /\ \/ moves' = moves
             \/ /\ Len(moves') = Len(moves) + 1
                /\ \A i \in 1..Len(moves) : moves'[i] = moves[i]
          /\ (Len(moves') > Len(moves)) <=> (currentPlayer' # currentPlayer)
     /\ lastHandler' = "handleNewGame" => (moves' = <<>> /\ currentPlayer' = "white")
    ]_allvars

\* A promotion has been cancelled after at least seven committed moves: the history
\* kept its length through selections, entering and cancelling.
C27_Witness ==
  /\ lastHandler = "handlePromotionCancel"
  /\ Len(moves) >= 7
  /\ promotionPending = NoPending
  /\ currentPlayer = IF Len(moves) % 2 = 0 THEN "white" ELSE "black"

\* C28: a pawn's one-step diagonal-forward move is accepted iff the
\* destination holds an enemy piece or is the en-passant target; its one-step
\* straight-forward move is accepted iff the destination is empty; apart from
\* the double step from the starting rank no other pawn move is accepted.
C28_PawnMoves ==
  (probeOnBoard /\ board[probe.from].type = "pawn") =>
    LET color == board[probe.from].color
        forward == IF color = "white" THEN -1 ELSE 1
        rows == probe.to[1] - probe.from[1]
        files == Abs(probe.to[2] - probe.from[2])
        target == board[probe.to]
        diagonal == files = 1 /\ rows = forward
        straight == files = 0 /\ rows = forward
        double == files = 0 /\ rows = 2 * forward /\ probe.from[1] = startRow(color)
    IN  /\ diagonal =>
             ((probe.result = "true") <=>
                \/ (target # NoPiece /\ target.color # color)
                \/ probe.to = enPassantTarget)
        /\ straight => ((probe.result = "true") <=> target = NoPiece)
        /\ ~(diagonal \/ straight \/ double) => probe.result = "false"

backRank(color) ==
  <<ChessPiece("rook", color), ChessPiece("knight", color), ChessPiece("bishop", color),
    ChessPiece("queen", color), ChessPiece("king", color), ChessPiece("bishop", color),
    ChessPiece("knight", color), ChessPiece("rook", color)>>

\* The canonical initial layout: black's pieces on row 0 and pawns on row 1,
\* white's pawns on row 6 and pieces on row 7.
canonicalLayout ==
  [sq \in Square |->
     CASE sq[1] = 0 -> backRank("black")[sq[2] + 1]
       [] sq[1] = 1 -> ChessPiece("pawn", "black")
       [] sq[1] = 6 -> ChessPiece("pawn", "white")
       [] sq[1] = 7 -> backRank("white")[sq[2] + 1]
       [] OTHER -> NoPiece]

\* C29: a new game from any state (a piece selected or a promotion pending
\* included) yields the canonical initial state: initial layout, white to
\* move, empty history and capture lists, all four castling rights, no
\* en-passant target, no selection, no pending promotion; it leaves the
\* board-flip flag as it is, and flipping the board changes no GameState field.
C29_NewGameAndFlip ==
  [][/\ lastHandler' = "handleNewGame" =>
          /\ board' = canonicalLayout
          /\ currentPlayer' = "white"
          /\ moves' = <<>>
          /\ capturedPieces' = [white |-> <<>>, black |-> <<>>]
          /\ allRightsSet(castlingRights')
          /\ enPassantTarget' = NoSquare
          /\ selectedSquare' = NoSquare /\ validMoves' = {}
          /\ promotionPending' = NoPending
          /\ ~isCheck' /\ ~isCheckmate' /\ ~gameOver'
          /\ boardFlipped' = boardFlipped
     /\ lastHandler' = "handleFlipBoard" =>
          /\ UNCHANGED vars
          /\ boardFlipped' # boardFlipped
     /\ boardFlipped' # boardFlipped => lastHandler' = "handleFlipBoard"
    ]_allvars

\* The board has been flipped while a promotion was pending, and the pending
\* promotion and the selection are still there.
C29_Witness ==
  /\ lastHandler = "handleFlipBoard"
  /\ boardFlipped
  /\ promotionPending # NoPending
  /\ selectedSquare # NoSquare
  /\ Len(moves) >= 8

piecesOnBoard(b) == Cardinality({sq \in Square : b[sq] # NoPiece})

\* C30: the pieces on the board and the pieces of the two captured lists are
\* 32 together in every state; no piece leaves the board without being
\* recorded as captured, and a commit removes at most one piece from the board.
C30_PieceConservation ==
  [][/\ piecesOnBoard(board) + Len(capturedPieces.white) + Len(capturedPieces.black) = 32
     /\ piecesOnBoard(board') + Len(capturedPieces'.white) + Len(capturedPieces'.black) = 32
     /\ Committed => piecesOnBoard(board') >= piecesOnBoard(board) - 1
    ]_allvars

\* C31: whenever enPassantTarget is set, the last Move of the history is a
\* two-square pawn advance by the player who is not to move, the target is the
\* square between that Move's origin and destination (row 5 after a white
\* advance, row 2 after a black one), the target square is empty, and the
\* advanced pawn stands on the square directly beyond it.
C31_EnPassantTargetShape ==
  enPassantTarget # NoSquare =>
    /\ moves # <<>>
    /\ LET m == Last(moves)
       IN  /\ m.piece.type = "pawn"
           /\ m.piece.color # currentPlayer
           /\ m.from[2] = m.to[2]
           /\ Abs(m.to[1] - m.from[1]) = 2
           /\ enPassantTarget[2] = m.from[2]
           /\ 2 * enPassantTarget[1] = m.from[1] + m.to[1]
           /\ enPassantTarget[1] = IF m.piece.color = "white" THEN 5 ELSE 2
           /\ board[enPassantTarget] = NoPiece
           /\ board[m.to] = m.piece

\* The pending record fits the selection it was opened from.
pendingConsistent ==
  promotionPending # NoPending =>
    /\ selectedSquare # NoSquare
    /\ board[selectedSquare] = ChessPiece("pawn", promotionPending.color)
    /\ promotionPending.color = currentPlayer
    /\ promotionPending.square[1] = farthestRow(promotionPending.color)
    /\ promotionPending.square \in validMoves

\* C32: whenever promotionPending is set, selectedSquare is set and holds a
\* pawn whose colour is promotionPending.color and the player to move, and
\* promotionPending.square lies on that colour's farthest rank and is one of
\* validMoves; hence a choice of promotion piece always commits a move (it is
\* never a no-op) and the pending state is always left by it.
C32_PendingConsistent ==
  [][/\ pendingConsistent
     /\ pendingConsistent'
     /\ lastHandler' = "handlePromotion" =>
          /\ promotionPending # NoPending
          /\ Committed
          /\ promotionPending' = NoPending
     /\ \A pieceType \in PROMOTION_PIECES :
          (promotionPending # NoPending /\ handlePromotion(pieceType)) =>
             ~ UNCHANGED vars
    ]_allvars

\* A promotion is pending for a pawn that has more than one promotion square.
C32_Witness ==
  /\ promotionPending # NoPending
  /\ selectedSquare # NoSquare
  /\ promotionPending.square \in validMoves
  /\ Cardinality({sq \in validMoves : sq[1] = farthestRow(currentPlayer)}) >= 2

\* C33: only pawns promote and every pawn that reaches the last rank promotes:
\* a Move with isPromotion has a pawn as its piece and its destination on the
\* farthest rank of that pawn's colour, and was a legal move of that pawn on
\* the board it was committed on; a pawn Move to the farthest rank has
\* isPromotion; and no pawn stands on row 0 or row 7.
C33_OnlyPawnsPromote ==
  [][/\ Committed =>
          LET m == Last(moves')
              lastRank == m.to[1] = farthestRow(m.piece.color)
          IN  /\ m.isPromotion =>
                   /\ m.piece.type = "pawn"
                   /\ lastRank
                   /\ board[m.from] = m.piece
                   /\ isValidMove(m.from, m.to, board, gameStateAux)
                   /\ m.promotedTo \in PROMOTION_PIECES
              /\ (m.piece.type = "pawn" /\ lastRank) => m.isPromotion
              /\ ~m.isPromotion => m.promotedTo = NoType
     /\ \A sq \in Square : sq[1] \in {0, 7} => board'[sq].type # "pawn"
     /\ \A i \in 1..Len(moves') :
          moves'[i].isPromotion <=>
            /\ moves'[i].piece.type = "pawn"
            /\ moves'[i].to[1] = farthestRow(moves'[i].piece.color)
    ]_allvars

\* A pawn has promoted: a promoted piece stands where it arrived on the last
\* rank and no pawn stands on row 0 or row 7.
C33_Witness ==
  /\ moves # <<>>
  /\ Last(moves).isPromotion
  /\ Last(moves).piece.type = "pawn"
  /\ board[Last(moves).to].type \in PROMOTION_PIECES
  /\ \A sq \in Square : sq[1] \in {0, 7} => board[sq].type # "pawn"

\* The corner a colour's rook starts on, on the king's or the queen's side.
rookCorner(color, kingSide) == <<homeRow(color), IF kingSide THEN 7 ELSE 0>>

\* No Move of the history left from the square or arrived on it: the piece
\* that started the game there still stands there.
untouched(history, square) ==
  \A i \in 1..Len(history) : history[i].from # square /\ history[i].to # square

\* C34: castling is only committed with a king and a rook that have both never
\* moved: whenever a castling right is set and a rook of that colour stands on
\* the matching corner, that rook is the one that started the game there; a
\* right is not left set after the original corner rook has been captured or
\* replaced by another rook.
C34_CastlingOriginalPieces ==
  /\ \A color \in PieceColor, kingSide \in BOOLEAN :
       castlingRight(castlingRights, color, kingSide) =>
         /\ untouched(moves, rookCorner(color, kingSide))
         /\ board[rookCorner(color, kingSide)] = ChessPiece("rook", color) =>
              untouched(moves, rookCorner(color, kingSide))
  /\ \A i \in 1..Len(moves) :
       moves[i].isCastling =>
         LET before == SubSeq(moves, 1, i - 1)
             color == moves[i].piece.color
         IN  /\ untouched(before, <<homeRow(color), 4>>)
             /\ untouched(before, rookCorner(color, moves[i].to[2] = 6))

(***************************************************************************)
(* generateMoveNotation called for one move that is neither castling, en   *)
(* passant nor a promotion: a piece on an otherwise empty board moves to   *)
(* an empty square or captures an enemy pawn or queen there.               *)
(***************************************************************************)
NotationOrigins == {<<4, 3>>, <<6, 1>>, <<5, 2>>}

InitNotation ==
  /\ createInitialGameState
  /\ clickable = {}
  /\ lastHandler = "none"
  /\ boardFlipped = FALSE
  /\ preMove = NoSnapshot
  /\ probe = NoProbe

CallGenerateMoveNotation ==
  /\ probe = NoProbe
  /\ \E from \in NotationOrigins, to \in Square, type \in PieceType, color \in PieceColor,
        victim \in {"none", "pawn", "queen"} :
       LET piece == ChessPiece(type, color)
           capturedPiece == IF victim = "none" THEN NoPiece
                            ELSE ChessPiece(victim, otherPlayer(color))
           b == [sq \in Square |-> IF sq = from THEN piece
                                   ELSE IF sq = to THEN capturedPiece ELSE NoPiece]
       IN  /\ isValidMove(from, to, b, NoAuxState)
           /\ probe' = [from |-> from, to |-> to, piece |-> piece,
                        capturedPiece |-> capturedPiece,
                        result |-> generateMoveNotation(from, to, piece, capturedPiece,
                                                        FALSE, FALSE, FALSE, NoType)]
  /\ lastHandler' = "generateMoveNotation"
  /\ UNCHANGED <<vars, boardFlipped, clickable, preMove>>

NextNotation == CallGenerateMoveNotation

SpecNotation == InitNotation /\ [][NextNotation]_allvars

\* C35: the notation identifies the type of the moving piece: with origin,
\* destination, captured piece and flags fixed, generateMoveNotation gives
\* different strings for pieces of different types; in particular a knight
\* move and a king move to the same square are notated differently.
C35_NotationIdentifiesPiece ==
  lastHandler = "generateMoveNotation" =>
    \A type \in PieceType \ {probe.piece.type} :
      generateMoveNotation(probe.from, probe.to, ChessPiece(type, probe.piece.color),
                           probe.capturedPiece, FALSE, FALSE, FALSE, NoType)
        # probe.result

(***************************************************************************)
(* useChessGame with two calls of a handler in one render.  The handlers   *)
(* are useCallback closures over the rendered gameState: a second call     *)
(* made before the re-render reads the same gameState as the first.  Each  *)
(* call queues setGameState(prevState => ...); React applies the queued    *)
(* updaters in order, the second on the state the first returned.  The     *)
(* updater takes currentPlayer and moves from prevState and every other    *)
(* field from the values its call computed from the rendered gameState.    *)
(***************************************************************************)
hookExecuteMoveTwice(from, to, movingPiece, first, second) ==
  LET result1 == moveOnBoard(board, enPassantTarget, from, to, movingPiece, first)
      newMove1 == newMoveOf(board, enPassantTarget, from, to, movingPiece, first)
      result2 == moveOnBoard(board, enPassantTarget, from, to, movingPiece, second)
      newMove2 == newMoveOf(board, enPassantTarget, from, to, movingPiece, second)
  IN  /\ board' = result2.newBoard
      /\ currentPlayer' = otherPlayer(otherPlayer(currentPlayer))
      /\ selectedSquare' = NoSquare
      /\ validMoves' = {}
      /\ moves' = Append(Append(moves, newMove1), newMove2)
      /\ capturedPieces' =
           pushCaptured(pushCaptured(capturedPieces, result1.capturedPiece),
                        result2.capturedPiece)
      /\ castlingRights' = updateCastlingRights(castlingRights, newMove2)
      /\ enPassantTarget' = updateEnPassantTarget(newMove2)
      /\ promotionPending' = NoPending
      /\ UNCHANGED <<isCheck, isCheckmate, gameOver>>

\* handlePromotion(first); handlePromotion(second) in one render: both calls
\* read promotionPending, selectedSquare and board of the rendered gameState.
handlePromotionTwice(first, second) ==
  IF promotionPending = NoPending \/ selectedSquare = NoSquare THEN UNCHANGED vars
  ELSE LET movingPiece == board[selectedSquare]
       IN  IF movingPiece = NoPiece THEN UNCHANGED vars
           ELSE hookExecuteMoveTwice(selectedSquare, promotionPending.square,
                                     movingPiece, first, second)

\* The first call is within the bound on the history; the second belongs to
\* the same step.
ChoosePromotionTwice ==
  /\ dialogOpen
  /\ Len(moves) + 1 <= MaxMoves
  /\ \E first \in PROMOTION_PIECES, second \in PROMOTION_PIECES :
       handlePromotionTwice(first, second)
  /\ lastHandler' = "handlePromotion"
  /\ UNCHANGED <<boardFlipped, clickable, preMove, probe>>

NextSameRender ==
  ClickSquare \/ ChoosePromotion \/ CancelPromotion \/ NewGame \/ ChoosePromotionTwice

SpecSameRender == Init /\ [][NextSameRender]_allvars

\* C36: each committed state is derived from a single predecessor snapshot:
\* also when two executeMove calls of useChessGame are issued against the same
\* rendered GameState, the state that results is the commit of one Move on
\* that GameState; it never joins the board, capture lists, castling rights
\* and en-passant target computed from the rendered state to a player flip
\* and a history append made on top of the other call's state, so the history
\* and the player to move agree with the board.
C36_SinglePredecessor ==
  [][lastHandler' = "handlePromotion" =>
       LET m == Last(moves')
           result == moveOnBoard(board, enPassantTarget, m.from, m.to, m.piece, m.promotedTo)
       IN  /\ moves' = Append(moves, m)
           /\ m.piece.color = currentPlayer
           /\ currentPlayer' = otherPlayer(currentPlayer)
           /\ board' = result.newBoard
           /\ capturedPieces' = pushCaptured(capturedPieces, result.capturedPiece)
           /\ castlingRights' = updateCastlingRights(castlingRights, m)
           /\ enPassantTarget' = updateEnPassantTarget(m)
    ]_allvars

C38_AuxStateOnlyAdds ==
  probeOnBoard =>
    LET from == probe.from
        to == probe.to
        piece == board[from]
        without == isValidMove(from, to, board, NoAuxState)
        with == probe.result = "true"
        castling == /\ piece.type = "king"
                    /\ from[1] = to[1]
                    /\ Abs(from[2] - to[2]) = 2
        enPassant == /\ piece.type = "pawn"
                     /\ Abs(from[2] - to[2]) = 1
                     /\ to[1] = from[1] + (IF piece.color = "white" THEN -1 ELSE 1)
                     /\ to = enPassantTarget
                     /\ board[to] = NoPiece
    IN  /\ without => with
        /\ (with /\ ~without) <=> (with /\ (castling \/ enPassant))
        /\ \A rights \in {castlingRights, initialCastlingRights},
              target \in {enPassantTarget, NoSquare} :
             without => isValidMove(from, to, board, AuxState(rights, target))

\* The king's castling move is accepted with the game state and refused
\* without it.
C38_Witness ==
  /\ probeOnBoard
  /\ probe.from = KingHome
  /\ probe.to = <<7, 6>>
  /\ probe.result = "true"
  /\ ~isValidMove(probe.from, probe.to, board, NoAuxState)

====
